---- MODULE Spec2Model ----
(***************************************************************************)
(* A model of the SynthTable orchestration core:                           *)
(*   - get_subnet_list (src/src/get_processing_job.rs), the resolver of    *)
(*     private subnets with a route to a NAT gateway;                      *)
(*   - cleanup_aim and get_iam_instance_profile_specification              *)
(*     (src/src/manage_iam.rs), teardown and provision of the IAM role     *)
(*     and instance profile, run against an eventually consistent IAM.     *)
(***************************************************************************)
EXTENDS Integers, Sequences, FiniteSets, TLC

VARIABLES
    topology,       \* the region's VPCs, subnets, NAT gateways, route tables
    rpc,            \* get_subnet_list: "start", "returned", "panicked", "exited"
    valid_subnets,  \* get_subnet_list: the Vec<ValidSubnet> it returns
    iam,            \* IAM, as written: role, profile, attached, inline, managed
    vis,            \* IAM, as read: what get_role / list_instance_profiles show
    pc,             \* the step of manage_iam.rs the process is at
    todo,           \* the policy names a loop of manage_iam.rs has still to visit
    hist,           \* the top-level calls made so far, each with how it ended
    pre,            \* iam and vis as they were when the current call started
    lastCall,       \* the last mutating call issued, with iam as it was then
    lastRead,       \* the last existence read, with what it observed
    steps,          \* the requests, passed polls and delays of the current call
    glue_table,     \* the table the current call works for
    instance,       \* the power state of the EC2 instance of the job
    events,         \* the log stream of the table: the status events, oldest first
    job_state,      \* ProgressTracker::state
    message,        \* the message the progress bar shows
    last_log_line,  \* what update_progress read last from the log stream
    s3_location,    \* GlueTable::s3_location, the storage location of a table
    doc_pc,         \* where the templating of the table's policies stands
    s3arn,          \* what replaces "<your s3arn>" in the templates
    bucket,         \* what replaces "<your bucket>" in the templates
    instance_state_name,  \* the power state the loop read last
    poll,           \* the last read of the power state, or the sleep after it
    get_role_err,   \* get_role fails, for another reason than a missing role
    cw,             \* CloudWatch Logs, as written: the log groups, the streams of the job's group
    cw_vis,         \* CloudWatch Logs, as the describe calls show it
    cw_pc,          \* the step of set_up_cw_logging the process is at
    cw_steps        \* set_up_cw_logging: what its reads observed, the create calls

vars == <<topology, rpc, valid_subnets, iam, vis, pc, todo, hist, pre,
          lastCall, lastRead, steps, glue_table, instance, events, job_state,
          message, last_log_line, s3_location, doc_pc, s3arn, bucket,
          instance_state_name, poll, get_role_err, cw, cw_vis, cw_pc, cw_steps>>

resolverVars == <<topology, rpc, valid_subnets>>
iamVars == <<iam, vis, pc, todo, hist, pre, lastCall, lastRead, steps, glue_table>>
jobVars == <<instance, events, job_state, message, last_log_line>>
docVars == <<s3_location, doc_pc, s3arn, bucket>>
pollVars == <<instance_state_name, poll>>
cwVars == <<cw, cw_vis, cw_pc, cw_steps>>

(***************************************************************************)
(* Sequence helpers.                                                       *)
(***************************************************************************)
RECURSIVE Flatten(_)
Flatten(ss) == IF ss = <<>> THEN <<>> ELSE Head(ss) \o Flatten(Tail(ss))

MapSeq(f(_), s) == [i \in 1..Len(s) |-> f(s[i])]

Contains(s, x) == \E i \in 1..Len(s) : s[i] = x

Range(s) == {s[i] : i \in 1..Len(s)}

IsInjective(s) == \A i, j \in 1..Len(s) : s[i] = s[j] => i = j

(***************************************************************************)
(* The network topology the EC2 describe calls read.                       *)
(***************************************************************************)
\* available_ip_address_count ranges over 0..MaxAvail.
MaxAvail == 1

\* The identifiers of the region: two of each kind, enough for a subnet whose
\* route table points into the other VPC, and for a subnet with two route
\* tables or with routes to two NAT gateways.
VpcIds == {"vpc-1", "vpc-2"}
SubnetIds == <<"subnet-1", "subnet-2">>
NatIds == <<"nat-1", "nat-2">>
RtIds == <<"rtb-1", "rtb-2">>

None == "none"

\* The orders in which describe_vpcs can list the region's VPCs.
VpcLists ==
    {s \in UNION {[1..n -> VpcIds] : n \in 0..Cardinality(VpcIds)} : IsInjective(s)}

\* The routes of a route table: the local route, which names no NAT gateway,
\* then one route per NAT gateway the table refers to.
RoutesTo(refs) ==
    <<[destination |-> "local", nat_gateway_id |-> None]>> \o
    MapSeq(LAMBDA n : [destination |-> "0.0.0.0/0", nat_gateway_id |-> n],
           SelectSeq(NatIds, LAMBDA n : n \in refs))

SubnetLists(vpcs) ==
    IF vpcs = {} THEN {<<>>}
    ELSE {[i \in 1..Len(SubnetIds) |->
             [subnet_id |-> SubnetIds[i], vpc_id |-> f[i].v,
              map_public_ip_on_launch |-> f[i].p,
              available_ip_address_count |-> f[i].a]] :
          f \in [1..Len(SubnetIds) -> [v : vpcs, p : BOOLEAN, a : 0..MaxAvail]]}

NatLists(vpcs) ==
    UNION {{[i \in 1..n |-> [nat_gateway_id |-> NatIds[i], vpc_id |-> f[i]]] :
              f \in [1..n -> vpcs]} : n \in 0..Len(NatIds)}

RouteTableLists(vpcs) ==
    IF vpcs = {} THEN {<<>>}
    ELSE {[i \in 1..Len(RtIds) |->
             [route_table_id |-> RtIds[i], vpc_id |-> f[i].v, associations |-> f[i].a,
              routes |-> RoutesTo(f[i].r)]] :
          f \in [1..Len(RtIds) ->
                   [v : vpcs, a : SUBSET Range(SubnetIds), r : SUBSET Range(NatIds)]]}

\* A route table is associated only with subnets of its own VPC.
AssociationsInVpc(sl, rl) ==
    \A i \in 1..Len(rl) : \A j \in 1..Len(sl) :
        sl[j].subnet_id \in rl[i].associations => sl[j].vpc_id = rl[i].vpc_id

NoTopology == [vpcs |-> <<>>, subnets |-> <<>>, nat_gateways |-> <<>>, route_tables |-> <<>>]

(***************************************************************************)
(* get_subnet_list, as the code computes it.                               *)
(***************************************************************************)
ValidSubnet(vpc, subnet) == [vpc |-> vpc, subnet |-> subnet]

\* private_subnets without the test of available_ip_address_count.
private_subnets_any_capacity(t, vpc) ==
    MapSeq(LAMBDA s : s.subnet_id,
           SelectSeq(SelectSeq(t.subnets, LAMBDA s : s.vpc_id = vpc),
                     LAMBDA s : s.map_public_ip_on_launch = FALSE))

\* describe_subnets filtered by vpc-id, then the code's filter and map.
private_subnets(t, vpc) ==
    MapSeq(LAMBDA s : s.subnet_id,
           SelectSeq(SelectSeq(t.subnets, LAMBDA s : s.vpc_id = vpc),
                     LAMBDA s : s.map_public_ip_on_launch = FALSE
                                /\ s.available_ip_address_count > 0))

\* nat_gatways without the vpc-id filter: every NAT gateway of the region.
nat_gatways_any_vpc(t, vpc) ==
    MapSeq(LAMBDA n : n.nat_gateway_id, t.nat_gateways)

\* describe_nat_gateways filtered by vpc-id, mapped to the ids.
nat_gatways(t, vpc) ==
    MapSeq(LAMBDA n : n.nat_gateway_id,
           SelectSeq(t.nat_gateways, LAMBDA n : n.vpc_id = vpc))

\* describe_route_tables filtered by association.subnet-id, mapped to the ids.
route_tables(t, private_subnet) ==
    MapSeq(LAMBDA r : r.route_table_id,
           SelectSeq(t.route_tables, LAMBDA r : private_subnet \in r.associations))

\* The NAT gateway ids of a route list: filter_map drops the routes without one.
NatGatewayIdsOf(rs) ==
    MapSeq(LAMBDA r : r.nat_gateway_id,
           SelectSeq(rs, LAMBDA r : r.nat_gateway_id # None))

\* describe_route_tables by route table id: one list of NAT gateway ids per
\* route table returned.
routes(t, route_table) ==
    MapSeq(LAMBDA r : NatGatewayIdsOf(r.routes),
           SelectSeq(t.route_tables, LAMBDA r : r.route_table_id = route_table))

\* The two innermost loops: one push per (route list, NAT gateway) match.
PushesOfRouteTable(t, vpc, private_subnet, route_table) ==
    Flatten(MapSeq(LAMBDA route :
                Flatten(MapSeq(LAMBDA nat_gateway :
                            IF Contains(route, nat_gateway)
                            THEN <<ValidSubnet(vpc, private_subnet)>>
                            ELSE <<>>,
                        nat_gatways(t, vpc))),
            routes(t, route_table)))

PushesOfSubnet(t, vpc, private_subnet) ==
    Flatten(MapSeq(LAMBDA route_table :
                       PushesOfRouteTable(t, vpc, private_subnet, route_table),
                   route_tables(t, private_subnet)))

PushesOfVpc(t, vpc) ==
    IF Len(private_subnets(t, vpc)) > 0 /\ Len(nat_gatways(t, vpc)) > 0
    THEN Flatten(MapSeq(LAMBDA private_subnet : PushesOfSubnet(t, vpc, private_subnet),
                        private_subnets(t, vpc)))
    ELSE <<>>

\* get_subnet_list without the exit on an empty list.
get_subnet_list_returns_empty(t) ==
    LET vpc_list == t.vpcs
        found == Flatten(MapSeq(LAMBDA vpc : PushesOfVpc(t, vpc), vpc_list))
    IN  IF Len(vpc_list) = 0 THEN [outcome |-> "panicked", list |-> <<>>]
        ELSE [outcome |-> "returned", list |-> found]

\* get_subnet_list handing out its list last found first.
get_subnet_list_last_first(t) ==
    LET vpc_list == t.vpcs
        found == Flatten(MapSeq(LAMBDA vpc : PushesOfVpc(t, vpc), vpc_list))
    IN  IF Len(vpc_list) = 0 THEN [outcome |-> "panicked", list |-> <<>>]
        ELSE IF Len(found) = 0 THEN [outcome |-> "exited", list |-> <<>>]
        ELSE [outcome |-> "returned",
              list |-> [i \in 1..Len(found) |-> found[Len(found) + 1 - i]]]

\* get_subnet_list: the panic on a region without VPCs, the scan, the exit on
\* an empty list.
get_subnet_list(t) ==
    LET vpc_list == t.vpcs
        found == Flatten(MapSeq(LAMBDA vpc : PushesOfVpc(t, vpc), vpc_list))
    IN  IF Len(vpc_list) = 0 THEN [outcome |-> "panicked", list |-> <<>>]
        ELSE IF Len(found) = 0 THEN [outcome |-> "exited", list |-> <<>>]
        ELSE [outcome |-> "returned", list |-> found]

(***************************************************************************)
(* IAM: the role and the instance profile named PROJECT_NAME.              *)
(***************************************************************************)
\* The number of policy templates (the json files of src/policies).
NumTemplates == 2

\* The number of top-level calls and outside changes in one behaviour.
MaxCalls == 3

\* The tables a call can work for.
Tables == {"table_a", "table_b"}

\* generate_policy_docs without the replacement of "<your table>".
generate_policy_docs_untemplated(table) ==
    [i \in 1..NumTemplates |-> [policy_name |-> i, table |-> "<your table>"]]

\* The inline policies, one per template file, each templated for the table:
\* generate_policy_docs.
generate_policy_docs(table) ==
    [i \in 1..NumTemplates |-> [policy_name |-> i, table |-> table]]

PolicyNames == 1..NumTemplates

Clean == [role |-> FALSE, profile |-> FALSE, attached |-> FALSE, inline |-> {},
          managed |-> FALSE]

Unseen == [role |-> FALSE, profile |-> FALSE]

NoCall == [op |-> "none", iam |-> Clean, barrier |-> "none"]

NoRead == [of |-> "none", seen |-> FALSE, failed |-> FALSE]

RECURSIVE SortedSeq(_)
SortedSeq(S) ==
    IF S = {} THEN <<>>
    ELSE LET m == CHOOSE x \in S : \A y \in S : x <= y
         IN  <<m>> \o SortedSeq(S \ {m})

Ok(s) == [ok |-> TRUE, iam |-> s]
Err(s) == [ok |-> FALSE, iam |-> s]

\* What IAM answers to each mutating call: it rejects a call on an entity that
\* does not exist, a second create, and the deletion of a referenced entity.
IamDetachRolePolicy(s) ==
    IF s.role /\ s.managed THEN Ok([s EXCEPT !.managed = FALSE]) ELSE Err(s)

IamDeleteRolePolicy(s, p) ==
    IF s.role /\ \E d \in s.inline : d.policy_name = p
    THEN Ok([s EXCEPT !.inline = {d \in @ : d.policy_name # p}]) ELSE Err(s)

IamRemoveRoleFromInstanceProfile(s) ==
    IF s.role /\ s.profile /\ s.attached THEN Ok([s EXCEPT !.attached = FALSE])
    ELSE Err(s)

IamDeleteInstanceProfile(s) ==
    IF s.profile /\ ~s.attached THEN Ok([s EXCEPT !.profile = FALSE]) ELSE Err(s)

IamDeleteRole(s) ==
    IF s.role /\ s.inline = {} /\ ~s.managed /\ ~s.attached
    THEN Ok([s EXCEPT !.role = FALSE]) ELSE Err(s)

IamCreateInstanceProfile(s) ==
    IF ~s.profile THEN Ok([s EXCEPT !.profile = TRUE]) ELSE Err(s)

IamCreateRole(s) ==
    IF ~s.role THEN Ok([s EXCEPT !.role = TRUE]) ELSE Err(s)

IamAddRoleToInstanceProfile(s) ==
    IF s.role /\ s.profile /\ ~s.attached THEN Ok([s EXCEPT !.attached = TRUE])
    ELSE Err(s)

\* put_role_policy replaces the document of a policy of the same name.
IamPutRolePolicy(s, doc) ==
    IF s.role
    THEN Ok([s EXCEPT !.inline =
                {d \in @ : d.policy_name # doc.policy_name} \cup {doc}])
    ELSE Err(s)

\* list_role_policies answering with an empty list.
list_role_policies_none(s) == <<>>

\* list_role_policies: the names of the role's inline policies.
list_role_policies(s) == SortedSeq({d.policy_name : d \in s.inline})

\* is_role_exists answering true whatever get_role says.
is_role_exists_always == TRUE

\* get_role answered Ok: the role is visible.  An Err, whatever its reason,
\* reads as "no role".
is_role_exists == vis.role /\ ~get_role_err

\* list_instance_profiles names an instance profile called PROJECT_NAME.
is_instance_profile_exists == vis.profile

(***************************************************************************)
(* The process: one top-level call at a time, one step per IAM request.    *)
(***************************************************************************)
Current == hist[Len(hist)]

Ended(res) == [hist EXCEPT ![Len(hist)].res = res]

Stopped == pc \in {"idle", "panicked"}

InCall(op) == hist # <<>> /\ Current.op = op

\* The current call has gone through these steps.
Log(entries) == steps' = steps \o entries

\* A mutating request: IAM applies it, or rejects it and the expect panics.
Issue(name, answer, next) ==
    /\ lastCall' = [op |-> name, iam |-> iam, barrier |-> "none"]
    /\ Log(<<name>>)
    /\ IF answer.ok
       THEN iam' = answer.iam /\ pc' = next /\ hist' = hist
       ELSE iam' = iam /\ pc' = "panicked" /\ hist' = Ended("panic")

\* An existence read.
Observe(what, seen) ==
    lastRead' = [of |-> what, seen |-> seen, failed |-> what = "role" /\ get_role_err]

\* What a read that ends a poll loop has confirmed.
Confirmed(what, seen) ==
    IF what = "role" THEN (IF seen THEN "role_visible" ELSE "role_absent")
    ELSE (IF seen THEN "profile_visible" ELSE "profile_absent")

\* The read that lets a poll loop end is the barrier of the call before it.
PassBarrier(seen) ==
    lastCall' = [lastCall EXCEPT !.barrier = IF seen THEN "present" ELSE "absent"]

\* cleanup_aim returns Ok(()): to the caller of teardown, into provision, or
\* into the Completed branch of the job.
CleanupReturns ==
    CASE Current.op = "provision" ->
            pc' = "create_instance_profile" /\ hist' = hist
      [] Current.op = "job" ->
            /\ pc' = IF job_state = "Completed" THEN "report_success"
                     ELSE "create_instance_profile"
            /\ hist' = hist
      [] OTHER -> pc' = "idle" /\ hist' = Ended("ok")

\* get_iam_instance_profile_specification returns the specification: to its
\* caller, or to run_ec2_instance.
ProvisionReturns ==
    IF Current.op = "job"
    THEN pc' = "run_instances" /\ hist' = hist
    ELSE pc' = "idle" /\ hist' = Ended("ok")

\* The loop conditions of the four polls.
delete_instance_profile_waits(seen) == seen
delete_role_waits(seen) == ~seen
\* create_instance_profile going on without waiting for the profile.
create_instance_profile_waits_never(seen) == FALSE

create_instance_profile_waits(seen) == ~seen
\* create_ec2_role polling until the role is gone.
create_ec2_role_waits_while_seen(seen) == seen

create_ec2_role_waits(seen) == ~seen

\* cleanup_aim: is_role_exists decides whether anything is torn down.
cleanup_aim ==
    /\ pc = "cleanup_aim"
    /\ Observe("role", is_role_exists)
    /\ IF is_role_exists
       THEN pc' = "detach_role_policy" /\ hist' = hist /\ Log(<<"cleanup_aim">>)
       ELSE CleanupReturns /\ Log(<<"cleanup_aim", "cleanup_aim_returned">>)
    /\ UNCHANGED <<resolverVars, cwVars, docVars, pollVars, get_role_err, jobVars, glue_table, iam, vis, todo, pre, lastCall>>

\* remove_all_policies_role: detach the managed policy.
detach_role_policy ==
    /\ pc = "detach_role_policy"
    /\ Issue("detach_role_policy", IamDetachRolePolicy(iam), "list_role_policies")
    /\ UNCHANGED <<resolverVars, cwVars, docVars, pollVars, get_role_err, jobVars, glue_table, vis, todo, pre, lastRead>>

\* remove_all_policies_role: list the inline policies (a read that fails
\* when there is no role).
remove_all_policies_role_list ==
    /\ pc = "list_role_policies"
    /\ IF iam.role
       THEN /\ todo' = list_role_policies(iam)
            /\ pc' = IF list_role_policies(iam) = <<>> THEN "is_instance_profile_exists"
                     ELSE "delete_role_policy"
            /\ hist' = hist
       ELSE todo' = todo /\ pc' = "panicked" /\ hist' = Ended("panic")
    /\ UNCHANGED <<resolverVars, cwVars, docVars, pollVars, get_role_err, jobVars, glue_table, steps, iam, vis, pre, lastCall, lastRead>>

\* remove_all_policies_role: delete the next listed inline policy.
delete_role_policy ==
    /\ pc = "delete_role_policy"
    /\ Issue("delete_role_policy", IamDeleteRolePolicy(iam, Head(todo)),
             IF Tail(todo) = <<>> THEN "is_instance_profile_exists"
             ELSE "delete_role_policy")
    /\ todo' = Tail(todo)
    /\ UNCHANGED <<resolverVars, cwVars, docVars, pollVars, get_role_err, jobVars, glue_table, vis, pre, lastRead>>

\* cleanup_aim: the instance profile is dealt with only if it is visible.
cleanup_aim_profile ==
    /\ pc = "is_instance_profile_exists"
    /\ Observe("profile", is_instance_profile_exists)
    /\ pc' = IF is_instance_profile_exists THEN "remove_role_from_instance_profile"
             ELSE "delete_role"
    /\ UNCHANGED <<resolverVars, cwVars, docVars, pollVars, get_role_err, jobVars, glue_table, steps, iam, vis, todo, hist, pre, lastCall>>

remove_role_from_instance_profile ==
    /\ pc = "remove_role_from_instance_profile"
    /\ Issue("remove_role_from_instance_profile",
             IamRemoveRoleFromInstanceProfile(iam), "delete_instance_profile")
    /\ UNCHANGED <<resolverVars, cwVars, docVars, pollVars, get_role_err, jobVars, glue_table, vis, todo, pre, lastRead>>

delete_instance_profile ==
    /\ pc = "delete_instance_profile"
    /\ Issue("delete_instance_profile", IamDeleteInstanceProfile(iam),
             "delete_instance_profile_poll")
    /\ UNCHANGED <<resolverVars, cwVars, docVars, pollVars, get_role_err, jobVars, glue_table, vis, todo, pre, lastRead>>

delete_instance_profile_poll ==
    /\ pc = "delete_instance_profile_poll"
    /\ Observe("profile", is_instance_profile_exists)
    /\ IF delete_instance_profile_waits(is_instance_profile_exists)
       THEN pc' = "delete_instance_profile_sleep" /\ UNCHANGED <<lastCall, steps>>
       ELSE /\ pc' = "delete_role"
            /\ PassBarrier(is_instance_profile_exists)
            /\ Log(<<Confirmed("profile", is_instance_profile_exists)>>)
    /\ UNCHANGED <<resolverVars, cwVars, docVars, pollVars, get_role_err, jobVars, glue_table, iam, vis, todo, hist, pre>>

delete_instance_profile_sleep ==
    /\ pc = "delete_instance_profile_sleep"
    /\ pc' = "delete_instance_profile_poll"
    /\ UNCHANGED <<resolverVars, cwVars, docVars, pollVars, get_role_err, jobVars, glue_table, steps, iam, vis, todo, hist, pre, lastCall, lastRead>>

delete_role ==
    /\ pc = "delete_role"
    /\ Issue("delete_role", IamDeleteRole(iam), "delete_role_poll")
    /\ UNCHANGED <<resolverVars, cwVars, docVars, pollVars, get_role_err, jobVars, glue_table, vis, todo, pre, lastRead>>

delete_role_poll ==
    /\ pc = "delete_role_poll"
    /\ Observe("role", is_role_exists)
    /\ IF delete_role_waits(is_role_exists)
       THEN pc' = "delete_role_sleep" /\ UNCHANGED <<lastCall, steps>> /\ hist' = hist
       ELSE /\ PassBarrier(is_role_exists)
            /\ Log(<<Confirmed("role", is_role_exists), "cleanup_aim_returned">>)
            /\ CleanupReturns
    /\ UNCHANGED <<resolverVars, cwVars, docVars, pollVars, get_role_err, jobVars, glue_table, iam, vis, todo, pre>>

delete_role_sleep ==
    /\ pc = "delete_role_sleep"
    /\ pc' = "delete_role_poll"
    /\ UNCHANGED <<resolverVars, cwVars, docVars, pollVars, get_role_err, jobVars, glue_table, steps, iam, vis, todo, hist, pre, lastCall, lastRead>>

\* create_instance_profile, entered when cleanup_aim has returned.
create_instance_profile ==
    /\ pc = "create_instance_profile"
    /\ Issue("create_instance_profile", IamCreateInstanceProfile(iam),
             "create_instance_profile_poll")
    /\ UNCHANGED <<resolverVars, cwVars, docVars, pollVars, get_role_err, jobVars, glue_table, vis, todo, pre, lastRead>>

create_instance_profile_poll ==
    /\ pc = "create_instance_profile_poll"
    /\ Observe("profile", is_instance_profile_exists)
    /\ IF create_instance_profile_waits(is_instance_profile_exists)
       THEN pc' = "create_instance_profile_sleep" /\ UNCHANGED <<lastCall, steps>>
       ELSE /\ pc' = "settle"
            /\ PassBarrier(is_instance_profile_exists)
            /\ Log(<<Confirmed("profile", is_instance_profile_exists)>>)
    /\ UNCHANGED <<resolverVars, cwVars, docVars, pollVars, get_role_err, jobVars, glue_table, iam, vis, todo, hist, pre>>

create_instance_profile_sleep ==
    /\ pc = "create_instance_profile_sleep"
    /\ pc' = "create_instance_profile_poll"
    /\ UNCHANGED <<resolverVars, cwVars, docVars, pollVars, get_role_err, jobVars, glue_table, steps, iam, vis, todo, hist, pre, lastCall, lastRead>>

\* create_instance_profile: the 30 second sleep.
settle ==
    /\ pc = "settle"
    /\ pc' = "create_ec2_role"
    /\ Log(<<"settle">>)
    /\ UNCHANGED <<resolverVars, cwVars, docVars, pollVars, get_role_err, jobVars, glue_table, iam, vis, todo, hist, pre, lastCall, lastRead>>

\* add_role_to_instance_profile starts by creating the role.
create_ec2_role ==
    /\ pc = "create_ec2_role"
    /\ Issue("create_role", IamCreateRole(iam), "create_ec2_role_poll")
    /\ UNCHANGED <<resolverVars, cwVars, docVars, pollVars, get_role_err, jobVars, glue_table, vis, todo, pre, lastRead>>

create_ec2_role_poll ==
    /\ pc = "create_ec2_role_poll"
    /\ Observe("role", is_role_exists)
    /\ IF create_ec2_role_waits(is_role_exists)
       THEN pc' = "create_ec2_role_sleep" /\ UNCHANGED <<lastCall, steps>>
       ELSE /\ pc' = "add_role_to_instance_profile"
            /\ PassBarrier(is_role_exists)
            /\ Log(<<Confirmed("role", is_role_exists)>>)
    /\ UNCHANGED <<resolverVars, cwVars, docVars, pollVars, get_role_err, jobVars, glue_table, iam, vis, todo, hist, pre>>

create_ec2_role_sleep ==
    /\ pc = "create_ec2_role_sleep"
    /\ pc' = "create_ec2_role_poll"
    /\ UNCHANGED <<resolverVars, cwVars, docVars, pollVars, get_role_err, jobVars, glue_table, steps, iam, vis, todo, hist, pre, lastCall, lastRead>>

\* The call reaches add_policies_to_role, or returns when there is no template.
add_role_to_instance_profile ==
    /\ pc = "add_role_to_instance_profile"
    /\ lastCall' = [op |-> "add_role_to_instance_profile", iam |-> iam,
                    barrier |-> "none"]
    /\ Log(<<"add_role_to_instance_profile">>)
    /\ LET answer == IamAddRoleToInstanceProfile(iam)
       IN  IF ~answer.ok
           THEN iam' = iam /\ pc' = "panicked" /\ hist' = Ended("panic") /\ todo' = todo
           ELSE /\ iam' = answer.iam
                /\ todo' = generate_policy_docs(glue_table)
                /\ IF generate_policy_docs(glue_table) = <<>>
                   THEN ProvisionReturns
                   ELSE pc' = "put_role_policy" /\ hist' = hist
    /\ UNCHANGED <<resolverVars, cwVars, docVars, pollVars, get_role_err, jobVars, glue_table, vis, pre, lastRead>>

\* add_policies_to_role: put the next policy; after the last one, provision
\* returns the instance profile specification.
put_role_policy ==
    /\ pc = "put_role_policy"
    /\ lastCall' = [op |-> "put_role_policy", iam |-> iam, barrier |-> "none"]
    /\ Log(<<"put_role_policy">>)
    /\ LET answer == IamPutRolePolicy(iam, Head(todo))
       IN  IF ~answer.ok
           THEN iam' = iam /\ pc' = "panicked" /\ hist' = Ended("panic")
           ELSE /\ iam' = answer.iam
                /\ IF Tail(todo) = <<>>
                   THEN ProvisionReturns
                   ELSE pc' = "put_role_policy" /\ hist' = hist
    /\ todo' = Tail(todo)
    /\ UNCHANGED <<resolverVars, cwVars, docVars, pollVars, get_role_err, jobVars, glue_table, vis, pre, lastRead>>

Step ==
    \/ cleanup_aim
    \/ detach_role_policy
    \/ remove_all_policies_role_list
    \/ delete_role_policy
    \/ cleanup_aim_profile
    \/ remove_role_from_instance_profile
    \/ delete_instance_profile
    \/ delete_instance_profile_poll
    \/ delete_instance_profile_sleep
    \/ delete_role
    \/ delete_role_poll
    \/ delete_role_sleep
    \/ create_instance_profile
    \/ create_instance_profile_poll
    \/ create_instance_profile_sleep
    \/ settle
    \/ create_ec2_role
    \/ create_ec2_role_poll
    \/ create_ec2_role_sleep
    \/ add_role_to_instance_profile
    \/ put_role_policy

(***************************************************************************)
(* The callers and the environment.                                        *)
(***************************************************************************)
Call(op) ==
    /\ Len(hist) < MaxCalls
    /\ glue_table' \in Tables
    /\ steps' = <<>>
    /\ hist' = Append(hist, [op |-> op, res |-> "running"])
    /\ pc' = "cleanup_aim"
    /\ pre' = [iam |-> iam, vis |-> vis]
    /\ todo' = <<>>
    /\ lastCall' = NoCall
    /\ lastRead' = NoRead
    /\ UNCHANGED <<resolverVars, cwVars, docVars, pollVars, get_role_err, jobVars, iam, vis>>

\* teardown: cleanup_aim called on its own.
Teardown == Stopped /\ Call("teardown")

\* provision: get_iam_instance_profile_specification.
Provision == Stopped /\ Call("provision")

\* The process is killed between two steps; nothing handles it.
Interrupt ==
    /\ ~Stopped
    /\ pc' = "idle"
    /\ hist' = Ended("interrupted")
    /\ todo' = <<>>
    /\ UNCHANGED <<resolverVars, cwVars, docVars, pollVars, get_role_err, jobVars, glue_table, steps, iam, vis, pre, lastCall, lastRead>>

\* Between two runs somebody attaches AmazonSSMManagedInstanceCore to the
\* role, the managed policy remove_all_policies_role detaches.
AttachManaged ==
    /\ Stopped
    /\ Len(hist) < MaxCalls
    /\ iam.role /\ ~iam.managed
    /\ iam' = [iam EXCEPT !.managed = TRUE]
    /\ hist' = Append(hist, [op |-> "attach_managed", res |-> "ok"])
    /\ UNCHANGED <<resolverVars, cwVars, docVars, pollVars, get_role_err, jobVars, glue_table, steps, vis, pc, todo, pre, lastCall, lastRead>>

\* IAM is eventually consistent: a read catches up with the last write.
PropagateRole ==
    /\ vis.role # iam.role
    /\ vis' = [vis EXCEPT !.role = iam.role]
    /\ UNCHANGED <<resolverVars, cwVars, docVars, pollVars, get_role_err, jobVars, glue_table, steps, iam, pc, todo, hist, pre, lastCall, lastRead>>

PropagateProfile ==
    /\ vis.profile # iam.profile
    /\ vis' = [vis EXCEPT !.profile = iam.profile]
    /\ UNCHANGED <<resolverVars, cwVars, docVars, pollVars, get_role_err, jobVars, glue_table, steps, iam, pc, todo, hist, pre, lastCall, lastRead>>

Propagate == PropagateRole \/ PropagateProfile

IamAtStart ==
    /\ iam = Clean
    /\ vis = Unseen
    /\ pc = "idle"
    /\ todo = <<>>
    /\ hist = <<>>
    /\ pre = [iam |-> Clean, vis |-> Unseen]
    /\ lastCall = NoCall
    /\ lastRead = NoRead
    /\ steps = <<>>
    /\ glue_table = "table_a"
    /\ get_role_err = FALSE

(***************************************************************************)
(* Text: a string is the sequence of its characters.                       *)
(***************************************************************************)
UpperCase ==
    <<"A", "B", "C", "D", "E", "F", "G", "H", "I", "J", "K", "L", "M",
      "N", "O", "P", "Q", "R", "S", "T", "U", "V", "W", "X", "Y", "Z">>

LowerCase ==
    <<"a", "b", "c", "d", "e", "f", "g", "h", "i", "j", "k", "l", "m",
      "n", "o", "p", "q", "r", "s", "t", "u", "v", "w", "x", "y", "z">>

\* str::to_lowercase with no effect.
to_lowercase_identity(s) == s

\* str::to_lowercase.
to_lowercase(s) ==
    [i \in 1..Len(s) |->
        IF \E k \in 1..Len(UpperCase) : UpperCase[k] = s[i]
        THEN LowerCase[CHOOSE k \in 1..Len(UpperCase) : UpperCase[k] = s[i]]
        ELSE s[i]]

\* str::contains.
contains(s, pattern) ==
    \E i \in 0..(Len(s) - Len(pattern)) : SubSeq(s, i + 1, i + Len(pattern)) = pattern

done ==
    <<"d", "o", "n", "e">>

failed ==
    <<"f", "a", "i", "l", "e", "d">>

\* The event CWLogSender::new sends.
SettingUpLogging ==
    <<"S", "e", "t", "t", "i", "n", "g", " ", "u", "p", " ", "l", "o",
      "g", "g", "i", "n", "g", " ", ".", ".", ".">>

\* The status events the job on the instance may send.
StatusTexts ==
    { done,
      <<"D", "o", "n", "e">>,
      <<"D", "O", "N", "E", " ">>,
      <<"j", "o", "b", " ", "f", "a", "i", "l", "e", "d", ":", " ",
        "d", "i", "s", "k", " ", "f", "u", "l", "l">>,
      <<"J", "o", "b", " ", "F", "A", "I", "L", "E", "D">>,
      <<"5", "0", "%", " ", "c", "o", "m", "p", "l", "e", "t", "e">> }

\* The last event of a job that went to its end: "done", or a failure.
LastOfPreviousJob ==
    { done, <<"J", "o", "b", " ", "F", "A", "I", "L", "E", "D">> }

\* Nothing read yet.
NoLine == <<"no line">>

\* The message ProgressTracker::new seeds the progress bar with.
Starting == <<"Starting Synthetic Data Generation Job ...">>

\* The message update_progress sets for a job that goes on.
Generating(table, line) ==
    <<"Generating synthetic data for ", "database", ".", table, ": \n \t \t ">> \o line

\* No table has been chosen.
NoTable ==
    /\ s3_location = <<>>
    /\ doc_pc = "start"
    /\ s3arn = <<>>
    /\ bucket = <<>>

\* set_up_cw_logging has not been called.
LoggingNotSetUp ==
    /\ cw = [groups |-> {}, streams |-> {}]
    /\ cw_vis = cw
    /\ cw_pc = "start"
    /\ cw_steps = <<>>

\* No job has been started.
JobNotRun ==
    /\ instance = "none"
    /\ events = <<>>
    /\ job_state = "Running"
    /\ message = <<>>
    /\ last_log_line = NoLine
    /\ instance_state_name = "none"
    /\ poll = "none"
    /\ LoggingNotSetUp

ResolverNotRun ==
    /\ topology = NoTopology
    /\ rpc = "start"
    /\ valid_subnets = <<>>

NextIam ==
    \/ Step
    \/ Teardown
    \/ Provision
    \/ Interrupt
    \/ AttachManaged
    \/ Propagate

InitIam == IamAtStart /\ ResolverNotRun /\ JobNotRun /\ NoTable

SpecIam == InitIam /\ [][NextIam]_vars

\* The process keeps running and IAM keeps propagating.
SpecIamFair ==
    SpecIam /\ WF_vars(Step) /\ WF_vars(Propagate)

\* get_role starts failing: throttled, denied, unreachable.
GetRoleBreaks ==
    /\ ~Stopped
    /\ ~get_role_err
    /\ get_role_err' = TRUE
    /\ UNCHANGED <<resolverVars, cwVars, docVars, pollVars, jobVars, iamVars>>

GetRoleRecovers ==
    /\ get_role_err
    /\ get_role_err' = FALSE
    /\ UNCHANGED <<resolverVars, cwVars, docVars, pollVars, jobVars, iamVars>>

NextIamErr ==
    \/ NextIam
    \/ GetRoleBreaks
    \/ GetRoleRecovers

\* Teardown and provision with a get_role that may fail.
SpecIamErr == InitIam /\ [][NextIamErr]_vars

(***************************************************************************)
(* The job: run_sythetic_data_job, its instance and its log stream.        *)
(***************************************************************************)
MaxEvents == 3

\* get_last_log_line reading the stream from its head.
get_last_log_line_from_head(stream) ==
    IF stream = <<>> THEN <<>> ELSE stream[1]

\* get_last_log_line keeping to a "done" once one is in the stream.
get_last_log_line_done_sticks(stream) ==
    IF stream = <<>> THEN <<>>
    ELSE IF \E i \in 1..Len(stream) : stream[i] = done THEN done
    ELSE stream[Len(stream)]

\* get_last_log_line: the message of the last event, "" on an empty stream.
get_last_log_line(stream) ==
    IF stream = <<>> THEN <<>> ELSE stream[Len(stream)]

\* update_progress: the state a log line puts the tracker in.
JobStateOf(line) ==
    IF to_lowercase(line) = done THEN "Completed"
    ELSE IF contains(to_lowercase(line), failed) THEN "Failed"
    ELSE "Running"

\* The match on the state with the Failed arm going round the loop.
match_state_failed_continues(state) ==
    IF state = "Completed" THEN "terminate_ec2_instance" ELSE "update_progress_sleep"

\* The match on the state with the Failed arm terminating the instance.
match_state_failed_terminates(state) ==
    IF state = "Running" THEN "update_progress_sleep" ELSE "terminate_ec2_instance"

\* The match on the state with the Completed arm reporting at once.
match_state_completed_reports(state) ==
    CASE state = "Completed" -> "report_success"
      [] state = "Failed" -> "report_failed"
      [] OTHER -> "update_progress_sleep"

\* The match on the state with a teardown while the job is running.
match_state_running_cleans(state) ==
    CASE state = "Completed" -> "terminate_ec2_instance"
      [] state = "Failed" -> "report_failed"
      [] OTHER -> "cleanup_aim"

\* run_sythetic_data_job: the arm of the match on the state update_progress
\* returned.
match_state(state) ==
    CASE state = "Completed" -> "terminate_ec2_instance"
      [] state = "Failed" -> "report_failed"
      [] OTHER -> "update_progress_sleep"

\* run_sythetic_data_job up to run_ec2_instance: CWLogSender::new sends its
\* event and ProgressTracker::new seeds the tracker.
run_sythetic_data_job ==
    /\ pc = "idle" /\ hist = <<>>
    /\ hist' = <<[op |-> "job", res |-> "running"]>>
    /\ events' = Append(events, SettingUpLogging)
    /\ job_state' = "Running"
    /\ message' = Starting
    /\ pc' = "run_ec2_instance"
    /\ UNCHANGED <<resolverVars, cwVars, docVars, pollVars, get_role_err, iam, vis, todo, pre, lastCall, lastRead, steps,
                   glue_table, instance, last_log_line>>

\* run_ec2_instance asks for the instance profile specification first.
run_ec2_instance ==
    /\ pc = "run_ec2_instance"
    /\ pc' = "cleanup_aim"
    /\ UNCHANGED <<resolverVars, cwVars, docVars, pollVars, get_role_err, jobVars, iam, vis, todo, hist, pre, lastCall,
                   lastRead, steps, glue_table>>

\* run_ec2_instance: run_instances with the instance profile.
run_instances ==
    /\ pc = "run_instances"
    /\ lastCall' = [op |-> "run_instances", iam |-> iam, barrier |-> "none"]
    /\ Log(<<"run_instances">>)
    /\ instance' = "pending"
    /\ pc' = "get_instance_state_name"
    /\ UNCHANGED <<resolverVars, cwVars, docVars, pollVars, get_role_err, iam, vis, todo, hist, pre, lastRead, glue_table,
                   events, job_state, message, last_log_line>>

\* The match on the power state with the Pending arm updating the progress.
match_instance_state_name_pending_updates(name) ==
    CASE name = "running" -> "update_progress"
      [] name = "pending" -> "update_progress"
      [] OTHER -> "idle"

\* The match on the power state with the last arm going round the loop.
match_instance_state_name_other_continues(name) ==
    CASE name = "running" -> "update_progress"
      [] OTHER -> "get_instance_state_name"

\* run_sythetic_data_job: the arm of the match on the power state; the last
\* arm leaves the loop and the function.
match_instance_state_name(name) ==
    CASE name = "running" -> "update_progress"
      [] name = "pending" -> "get_instance_state_name"
      [] OTHER -> "idle"

\* The head of the loop: the power state decides the arm.
get_instance_state_name ==
    /\ pc = "get_instance_state_name"
    /\ instance_state_name' = instance
    /\ poll' = CASE poll = "none" -> "first"
                [] poll = "slept" -> "delayed"
                [] OTHER -> "undelayed"
    /\ pc' = match_instance_state_name(instance)
    /\ IF match_instance_state_name(instance) = "idle"
       THEN hist' = Ended("ok") /\ Log(<<"unknown_state">>)
       ELSE hist' = hist /\ steps' = steps
    /\ UNCHANGED <<resolverVars, cwVars, docVars, jobVars, iam, vis, todo, pre, lastCall, lastRead,
                   glue_table, get_role_err>>

\* update_progress up to its sleep, and the match on what it returns.
update_progress ==
    /\ pc = "update_progress"
    /\ last_log_line' = get_last_log_line(events)
    /\ job_state' = JobStateOf(get_last_log_line(events))
    /\ message' = IF JobStateOf(get_last_log_line(events)) = "Running"
                  THEN Generating(glue_table, get_last_log_line(events))
                  ELSE message
    /\ pc' = match_state(JobStateOf(get_last_log_line(events)))
    /\ UNCHANGED <<resolverVars, cwVars, docVars, pollVars, get_role_err, iam, vis, todo, hist, pre, lastCall, lastRead,
                   steps, glue_table, instance, events>>

\* update_progress: the sleep of delay_secs, then round the loop.
update_progress_sleep ==
    /\ pc = "update_progress_sleep"
    /\ pc' = "get_instance_state_name"
    /\ poll' = "slept"
    /\ UNCHANGED <<resolverVars, cwVars, docVars, instance_state_name, get_role_err, jobVars, iam, vis, todo, hist, pre, lastCall,
                   lastRead, steps, glue_table>>

\* The Completed arm: terminate_ec2_instance, then cleanup_aim.
terminate_ec2_instance ==
    /\ pc = "terminate_ec2_instance"
    /\ lastCall' = [op |-> "terminate_instances", iam |-> iam, barrier |-> "none"]
    /\ Log(<<"terminate_instances">>)
    /\ instance' = "shutting-down"
    /\ pc' = "cleanup_aim"
    /\ UNCHANGED <<resolverVars, cwVars, docVars, pollVars, get_role_err, iam, vis, todo, hist, pre, lastRead, glue_table,
                   events, job_state, message, last_log_line>>

\* The Completed arm, cleanup_aim returned: the summary is printed and the
\* loop left.
report_success ==
    /\ pc = "report_success"
    /\ Log(<<"report_success">>)
    /\ pc' = "idle"
    /\ hist' = Ended("ok")
    /\ UNCHANGED <<resolverVars, cwVars, docVars, pollVars, get_role_err, jobVars, iam, vis, todo, pre, lastCall, lastRead,
                   glue_table>>

\* The Failed arm: the summary is printed and the loop left.
report_failed ==
    /\ pc = "report_failed"
    /\ Log(<<"report_failed">>)
    /\ pc' = "idle"
    /\ hist' = Ended("ok")
    /\ UNCHANGED <<resolverVars, cwVars, docVars, pollVars, get_role_err, jobVars, iam, vis, todo, pre, lastCall, lastRead,
                   glue_table>>

JobStep ==
    \/ run_sythetic_data_job
    \/ run_ec2_instance
    \/ run_instances
    \/ get_instance_state_name
    \/ update_progress
    \/ update_progress_sleep
    \/ terminate_ec2_instance
    \/ report_success
    \/ report_failed

\* The instance comes up.
InstanceBoots ==
    /\ instance = "pending"
    /\ instance' = "running"
    /\ UNCHANGED <<resolverVars, cwVars, docVars, pollVars, get_role_err, iamVars, events, job_state, message, last_log_line>>

\* The instance is stopped from outside the job.
InstanceStops ==
    /\ instance = "running"
    /\ instance' = "stopped"
    /\ UNCHANGED <<resolverVars, cwVars, docVars, pollVars, get_role_err, iamVars, events, job_state, message, last_log_line>>

\* A terminated instance goes away.
InstanceTerminates ==
    /\ instance = "shutting-down"
    /\ instance' = "terminated"
    /\ UNCHANGED <<resolverVars, cwVars, docVars, pollVars, get_role_err, iamVars, events, job_state, message, last_log_line>>

\* The script on the running instance sends a status event.
SendStatus ==
    /\ instance = "running"
    /\ Len(events) < MaxEvents
    /\ \E text \in StatusTexts : events' = Append(events, text)
    /\ UNCHANGED <<resolverVars, cwVars, docVars, pollVars, get_role_err, iamVars, instance, job_state, message, last_log_line>>

\* While the job runs somebody attaches AmazonSSMManagedInstanceCore to the
\* role, to reach the instance.
AttachManagedMeanwhile ==
    /\ InCall("job") /\ ~Stopped
    /\ iam.role /\ ~iam.managed
    /\ iam' = [iam EXCEPT !.managed = TRUE]
    /\ UNCHANGED <<resolverVars, cwVars, docVars, pollVars, get_role_err, jobVars, vis, pc, todo, hist, pre, lastCall,
                   lastRead, steps, glue_table>>

\* What a job that ended in Failed, or was killed, leaves for the next job
\* on a table: the role with its policies, attached to the instance profile.
LeftBehind(table, managed) ==
    [role |-> TRUE, profile |-> TRUE, attached |-> TRUE,
     inline |-> Range(generate_policy_docs(table)), managed |-> managed]

\* A job on a table starts on what earlier jobs, on this table or on another,
\* left in IAM, and on what the last job on this table left in the log stream.
InitJob ==
    /\ ResolverNotRun
    /\ iam \in {Clean} \cup {LeftBehind(t, m) : t \in Tables, m \in BOOLEAN}
    /\ vis = [role |-> iam.role, profile |-> iam.profile]
    /\ pre = [iam |-> iam, vis |-> vis]
    /\ pc = "idle"
    /\ todo = <<>>
    /\ hist = <<>>
    /\ lastCall = NoCall
    /\ lastRead = NoRead
    /\ steps = <<>>
    /\ glue_table = "table_a"
    /\ instance = "none"
    /\ events \in {<<>>} \cup {<<text>> : text \in LastOfPreviousJob}
    /\ job_state = "Running"
    /\ message = <<>>
    /\ last_log_line = NoLine
    /\ instance_state_name = "none"
    /\ poll = "none"
    /\ get_role_err = FALSE
    /\ LoggingNotSetUp
    /\ NoTable

NextJob ==
    \/ JobStep
    \/ Step
    \/ Propagate
    \/ AttachManagedMeanwhile
    \/ InstanceBoots
    \/ InstanceStops
    \/ InstanceTerminates
    \/ SendStatus

SpecJob == InitJob /\ [][NextJob]_vars

\* The job keeps running, IAM keeps propagating and a pending instance comes
\* up.
SpecJobFair ==
    SpecJob /\ WF_vars(JobStep) /\ WF_vars(Step) /\ WF_vars(Propagate)
            /\ WF_vars(InstanceBoots)

(***************************************************************************)
(* The values generate_policy_docs puts into the policy templates.         *)
(***************************************************************************)
MaxKey == 3

\* str::replace: every match of from, left to right, becomes to.
RECURSIVE replace(_, _, _)
replace(s, from, to) ==
    IF Len(s) < Len(from) THEN s
    ELSE IF SubSeq(s, 1, Len(from)) = from
         THEN to \o replace(SubSeq(s, Len(from) + 1, Len(s)), from, to)
         ELSE <<Head(s)>> \o replace(Tail(s), from, to)

\* str::trim_end_matches taking one match off the end only.
trim_end_matches_once(s, c) ==
    IF s # <<>> /\ s[Len(s)] = c THEN SubSeq(s, 1, Len(s) - 1) ELSE s

\* str::trim_end_matches: the text without the characters c at its end.
RECURSIVE trim_end_matches(_, _)
trim_end_matches(s, c) ==
    IF s # <<>> /\ s[Len(s)] = c
    THEN trim_end_matches(SubSeq(s, 1, Len(s) - 1), c)
    ELSE s

\* The places where a text holds the separator.
MatchesOf(s, sep) ==
    {i \in 1..(Len(s) - Len(sep) + 1) : SubSeq(s, i, i + Len(sep) - 1) = sep}

\* str::split: the pieces between the matches of the separator.
RECURSIVE split(_, _)
split(s, sep) ==
    IF MatchesOf(s, sep) = {} THEN <<s>>
    ELSE LET i == CHOOSE m \in MatchesOf(s, sep) : \A k \in MatchesOf(s, sep) : m <= k
         IN  <<SubSeq(s, 1, i - 1)>> \o split(SubSeq(s, i + Len(sep), Len(s)), sep)

\* Iterator::nth: the piece after n pieces, or None.
nth(pieces, n) ==
    IF n + 1 <= Len(pieces) THEN [some |-> TRUE, value |-> pieces[n + 1]]
    ELSE [some |-> FALSE, value |-> <<>>]

S3Scheme ==
    <<"s", "3", ":", "/", "/">>

ArnOfS3 ==
    <<"a", "r", "n", ":", "a", "w", "s", ":", "s", "3", ":", ":", ":">>

\* str::starts_with, and the prefix filter of the describe calls.
starts_with(s, prefix) ==
    Len(prefix) <= Len(s) /\ SubSeq(s, 1, Len(prefix)) = prefix

\* get_one_glue_table: only the tables on S3 are kept.
get_one_glue_table_keeps(location) ==
    starts_with(to_lowercase(location), S3Scheme)

\* GlueTable::s3_arn.
s3_arn(location) ==
    trim_end_matches(replace(location, S3Scheme, ArnOfS3), "/")

\* The schemes of the locations in the catalog: the two get_one_glue_table
\* keeps, and one it drops.
Schemes ==
    { S3Scheme,
      <<"S", "3", ":", "/", "/">>,
      <<"h", "d", "f", "s", ":", "/", "/">> }

Buckets ==
    { <<"b">>,
      <<"b", "u", "c", "k", "e", "t">> }

\* The texts of the characters of an alphabet up to a length.
TextsUpTo(alphabet, n) == UNION {[1..k -> alphabet] : k \in 0..n}

\* What follows the bucket in a location: nothing, or a slash and a key.
Keys == {<<>>} \cup {<<"/">> \o k : k \in TextsUpTo({"p", "/"}, MaxKey)}

\* generate_policy_docs for a table get_one_glue_table kept: the ARN and the
\* bucket name it substitutes; the unwrap of nth(1) panics on an ARN without
\* ":::".
generate_policy_values ==
    /\ doc_pc = "start"
    /\ get_one_glue_table_keeps(s3_location)
    /\ LET after == nth(split(s3_arn(s3_location), <<":", ":", ":">>), 1)
       IN  IF after.some
           THEN /\ doc_pc' = "generated"
                /\ s3arn' = s3_arn(s3_location)
                /\ bucket' = nth(split(after.value, <<"/">>), 0).value
           ELSE /\ doc_pc' = "panicked"
                /\ UNCHANGED <<s3arn, bucket>>
    /\ UNCHANGED <<resolverVars, cwVars, iamVars, jobVars, pollVars, get_role_err, s3_location>>

InitDoc ==
    /\ ResolverNotRun
    /\ IamAtStart
    /\ JobNotRun
    /\ \E scheme \in Schemes, b \in Buckets, key \in Keys :
          s3_location = scheme \o b \o key
    /\ doc_pc = "start"
    /\ s3arn = <<>>
    /\ bucket = <<>>

NextDoc == generate_policy_values

SpecDoc == InitDoc /\ [][NextDoc]_vars

(***************************************************************************)
(* set_up_cw_logging: the log group and the log stream of the job.         *)
(***************************************************************************)
\* The log group is named PROJECT_NAME, the log stream after the table.
\* Another project and another table have names that begin in the same way.
log_group_name == <<"S">>
log_stream_name == <<"t">>
LogGroupNames == {log_group_name, log_group_name \o <<"2">>}
LogStreamNames == {log_stream_name, log_stream_name \o <<"2">>}

\* describe_log_groups with log_group_name_prefix.
describe_log_groups(prefix) == {g \in cw_vis.groups : starts_with(g, prefix)}

\* describe_log_streams of the group with log_stream_name_prefix.
describe_log_streams(prefix) == {x \in cw_vis.streams : starts_with(x, prefix)}

\* log_group_exists: an exact match among the groups returned.
log_group_exists ==
    \E log_group \in describe_log_groups(log_group_name) : log_group = log_group_name

\* log_stream_exists taking any stream returned for a match.
log_stream_exists_by_prefix ==
    describe_log_streams(log_stream_name) # {}

\* log_stream_exists: an exact match among the streams returned.
log_stream_exists ==
    \E log_stream \in describe_log_streams(log_stream_name) :
        log_stream = log_stream_name

\* A call on the group answers ResourceNotFound when the group does not
\* exist; while the group exists and is not yet shown, it may do either.
GroupNotFound ==
    IF log_group_name \notin cw.groups THEN {TRUE}
    ELSE IF log_group_name \notin cw_vis.groups THEN BOOLEAN
    ELSE {FALSE}

CwLog(entries) == cw_steps' = cw_steps \o entries

\* set_up_cw_logging: the first read of the log group.
set_up_cw_logging ==
    /\ cw_pc = "start"
    /\ IF log_group_exists
       THEN CwLog(<<"group_present">>) /\ cw_pc' = "log_stream_exists"
       ELSE CwLog(<<"group_absent">>) /\ cw_pc' = "create_log_group"
    /\ UNCHANGED <<resolverVars, iamVars, jobVars, docVars, pollVars, get_role_err,
                   cw, cw_vis>>

\* create_log_group; ResourceAlreadyExists fails the expect.
create_log_group ==
    /\ cw_pc = "create_log_group"
    /\ CwLog(<<"create_log_group">>)
    /\ IF log_group_name \in cw.groups
       THEN cw_pc' = "panicked" /\ cw' = cw
       ELSE /\ cw_pc' = "log_stream_exists"
            /\ cw' = [cw EXCEPT !.groups = @ \cup {log_group_name}]
    /\ UNCHANGED <<resolverVars, iamVars, jobVars, docVars, pollVars, get_role_err,
                   cw_vis>>

\* set_up_cw_logging: the first read of the log stream.
set_up_cw_logging_stream ==
    /\ cw_pc = "log_stream_exists"
    /\ \E not_found \in GroupNotFound :
          IF not_found
          THEN cw_pc' = "panicked" /\ cw_steps' = cw_steps
          ELSE IF log_stream_exists
          THEN CwLog(<<"stream_present">>) /\ cw_pc' = "wait"
          ELSE CwLog(<<"stream_absent">>) /\ cw_pc' = "create_log_stream"
    /\ UNCHANGED <<resolverVars, iamVars, jobVars, docVars, pollVars, get_role_err,
                   cw, cw_vis>>

\* create_log_stream; ResourceAlreadyExists and ResourceNotFound fail the
\* expect.
create_log_stream ==
    /\ cw_pc = "create_log_stream"
    /\ CwLog(<<"create_log_stream">>)
    /\ \E not_found \in GroupNotFound :
          IF not_found \/ log_stream_name \in cw.streams
          THEN cw_pc' = "panicked" /\ cw' = cw
          ELSE /\ cw_pc' = "wait"
               /\ cw' = [cw EXCEPT !.streams = @ \cup {log_stream_name}]
    /\ UNCHANGED <<resolverVars, iamVars, jobVars, docVars, pollVars, get_role_err,
                   cw_vis>>

\* The loop: both reads again, the stream's only when the group is shown.
set_up_cw_logging_wait ==
    /\ cw_pc = "wait"
    /\ IF log_group_exists /\ log_stream_exists
       THEN CwLog(<<"ready">>) /\ cw_pc' = "returned"
       ELSE cw_steps' = cw_steps /\ cw_pc' = "wait_sleep"
    /\ UNCHANGED <<resolverVars, iamVars, jobVars, docVars, pollVars, get_role_err,
                   cw, cw_vis>>

\* The loop: the sleep of one second.
set_up_cw_logging_sleep ==
    /\ cw_pc = "wait_sleep"
    /\ cw_pc' = "wait"
    /\ UNCHANGED <<resolverVars, iamVars, jobVars, docVars, pollVars, get_role_err,
                   cw, cw_vis, cw_steps>>

\* The describe calls come to show a group, a stream, that exists.
PropagateLogGroup ==
    /\ \E g \in cw.groups \ cw_vis.groups :
          cw_vis' = [cw_vis EXCEPT !.groups = @ \cup {g}]
    /\ UNCHANGED <<resolverVars, iamVars, jobVars, docVars, pollVars, get_role_err,
                   cw, cw_pc, cw_steps>>

PropagateLogStream ==
    /\ \E x \in cw.streams \ cw_vis.streams :
          cw_vis' = [cw_vis EXCEPT !.streams = @ \cup {x}]
    /\ UNCHANGED <<resolverVars, iamVars, jobVars, docVars, pollVars, get_role_err,
                   cw, cw_pc, cw_steps>>

\* CloudWatch Logs as earlier jobs, and other projects, left it; a stream
\* of the job's group exists only when the group does.
InitLog ==
    /\ ResolverNotRun
    /\ IamAtStart
    /\ NoTable
    /\ instance = "none"
    /\ events = <<>>
    /\ job_state = "Running"
    /\ message = <<>>
    /\ last_log_line = NoLine
    /\ instance_state_name = "none"
    /\ poll = "none"
    /\ \E G \in SUBSET LogGroupNames, X \in SUBSET LogStreamNames :
          /\ X # {} => log_group_name \in G
          /\ cw = [groups |-> G, streams |-> X]
    /\ \E G \in SUBSET cw.groups, X \in SUBSET cw.streams :
          cw_vis = [groups |-> G, streams |-> X]
    /\ cw_pc = "start"
    /\ cw_steps = <<>>

NextLog ==
    \/ set_up_cw_logging
    \/ create_log_group
    \/ set_up_cw_logging_stream
    \/ create_log_stream
    \/ set_up_cw_logging_wait
    \/ set_up_cw_logging_sleep
    \/ PropagateLogGroup
    \/ PropagateLogStream

SpecLog == InitLog /\ [][NextLog]_vars

(***************************************************************************)
(* The resolver run on a region's topology.                                *)
(***************************************************************************)
GetSubnetList ==
    /\ rpc = "start"
    /\ rpc' = get_subnet_list(topology).outcome
    /\ valid_subnets' = get_subnet_list(topology).list
    /\ UNCHANGED <<topology, cwVars, iamVars, jobVars, docVars, pollVars, get_role_err>>

InitResolver ==
    /\ IamAtStart
    /\ JobNotRun
    /\ NoTable
    /\ \E vl \in VpcLists :
         \E sl \in SubnetLists(Range(vl)), nl \in NatLists(Range(vl)),
            rl \in RouteTableLists(Range(vl)) :
             /\ AssociationsInVpc(sl, rl)
             /\ topology = [vpcs |-> vl, subnets |-> sl, nat_gateways |-> nl,
                            route_tables |-> rl]
    /\ rpc = "start"
    /\ valid_subnets = <<>>

NextResolver == GetSubnetList

SpecResolver == InitResolver /\ [][NextResolver]_vars

(***************************************************************************)
(* Properties of the resolver.                                             *)
(***************************************************************************)
Finished == rpc # "start"

InOutput(v, sn) == Contains(valid_subnets, ValidSubnet(v, sn))

SubnetsOf(t) == Range(t.subnets)
NatsOf(t) == Range(t.nat_gateways)
RouteTablesOf(t) == Range(t.route_tables)

PrivateWithCapacity(s) ==
    ~s.map_public_ip_on_launch /\ s.available_ip_address_count > 0

\* The NAT gateways a subnet's associated route tables route to.
NatRefsOf(t, s) ==
    UNION {{route.nat_gateway_id : route \in Range(r.routes)} :
             r \in {x \in RouteTablesOf(t) : s.subnet_id \in x.associations}}
    \ {None}

NatIdsIn(t, v) == {n.nat_gateway_id : n \in {x \in NatsOf(t) : x.vpc_id = v}}

Eligible(t, v, sn) ==
    \E s \in SubnetsOf(t) :
        /\ s.subnet_id = sn /\ s.vpc_id = v
        /\ v \in Range(t.vpcs)
        /\ PrivateWithCapacity(s)
        /\ NatIdsIn(t, v) # {}
        /\ NatRefsOf(t, s) \cap NatIdsIn(t, v) # {}

\* C1: a (network, subnet) pair is in the output of get_subnet_list if and
\* only if the subnet is private, has available addresses, its network has a
\* NAT gateway, and a route table associated with the subnet has a route to a
\* NAT gateway of that network.
C1_SubnetEligibility ==
    Finished =>
        \A v \in VpcIds : \A sn \in Range(SubnetIds) :
            InOutput(v, sn) <=> Eligible(topology, v, sn)

\* Reached: the resolver returned one subnet and left out another private
\* subnet with capacity of the same region.
C1_Witness ==
    /\ rpc = "returned"
    /\ \E s1, s2 \in SubnetsOf(topology) :
          /\ InOutput(s1.vpc_id, s1.subnet_id)
          /\ PrivateWithCapacity(s2)
          /\ ~InOutput(s2.vpc_id, s2.subnet_id)

\* A private subnet with capacity whose route tables route to NAT gateways,
\* all of them NAT gateways of other networks.
RoutedThroughOtherNetworkOnly(t, s) ==
    /\ PrivateWithCapacity(s)
    /\ NatRefsOf(t, s) # {}
    /\ \A r \in NatRefsOf(t, s) :
          \E n \in NatsOf(t) : n.nat_gateway_id = r /\ n.vpc_id # s.vpc_id

\* C2: a private subnet with capacity whose route tables refer only to NAT
\* gateways of a different network is never in the output, even when its own
\* network has NAT gateways.
C2_NoFalsePositive ==
    Finished =>
        \A s \in SubnetsOf(topology) :
            RoutedThroughOtherNetworkOnly(topology, s)
                => \A v \in VpcIds : ~InOutput(v, s.subnet_id)

\* Reached: the resolver ran on such a subnet, whose own network has a NAT
\* gateway of its own.
C2_Witness ==
    /\ Finished
    /\ \E s \in SubnetsOf(topology) :
          /\ RoutedThroughOtherNetworkOnly(topology, s)
          /\ NatIdsIn(topology, s.vpc_id) # {}

(***************************************************************************)
(* Properties of teardown and provision.                                   *)
(***************************************************************************)
StartedClean == pre = [iam |-> Clean, vis |-> Unseen]

\* C3: teardown issues delete_role only when the role has no inline policy
\* left, and delete_instance_profile only when no role is attached to the
\* profile.
C3_DeletionOrdering ==
    /\ lastCall.op = "delete_role" => lastCall.iam.inline = {}
    /\ lastCall.op = "delete_instance_profile" => ~lastCall.iam.attached

\* Reached: a teardown that started with inline policies on the role and the
\* role attached to the profile has deleted the profile and issues delete_role.
C3_Witness ==
    /\ InCall("teardown")
    /\ pre.iam.inline # {} /\ pre.iam.attached /\ pre.iam.profile
    /\ ~iam.profile
    /\ lastCall.op = "delete_role"

\* C4: teardown on a clean state, once or twice in succession, raises no
\* error, issues no mutating call and leaves IAM as it was.
C4_CleanTeardown ==
    (InCall("teardown") /\ StartedClean) =>
        /\ pc # "panicked" /\ Current.res # "panic"
        /\ lastCall = NoCall
        /\ iam = Clean /\ vis = Unseen

\* Reached: two teardowns in succession on the clean state, both returned.
C4_Witness ==
    /\ hist = <<[op |-> "teardown", res |-> "ok"], [op |-> "teardown", res |-> "ok"]>>
    /\ pc = "idle"

\* C5: from a clean state, teardown, provision, teardown completes and leaves
\* no role, no instance profile and no inline policy.
C5_TeardownProvisionTeardown ==
    ( /\ Len(hist) = 3
      /\ hist[1] = [op |-> "teardown", res |-> "ok"]
      /\ hist[2] = [op |-> "provision", res |-> "ok"]
      /\ hist[3].op = "teardown"
      /\ Stopped /\ hist[3].res # "interrupted" )
    => (hist[3].res = "ok" /\ iam = Clean)

\* C6: delete_role and delete_instance_profile return only after a read has
\* observed the deleted entity as absent.
C6_DeleteBarrier ==
    (lastCall.op \in {"delete_role", "delete_instance_profile"}
        /\ lastCall.barrier # "none")
    => lastCall.barrier = "absent"

\* C7: with IAM eventually consistent, a teardown started with the role and
\* the instance profile present eventually terminates.
C7_TeardownTerminates ==
    (InCall("teardown") /\ pc = "cleanup_aim" /\ iam.role /\ iam.profile)
        ~> Stopped

\* C8: a teardown that starts with the instance profile present and the role
\* absent leaves no instance profile behind.
C8_NoProfileLeftBehind ==
    ( /\ InCall("teardown") /\ Current.res = "ok"
      /\ pre.iam.profile /\ ~pre.iam.role )
    => ~iam.profile

\* C9: teardown does not fail, whatever state an interrupted provision or
\* teardown left behind.
C9_TeardownNeverFails ==
    InCall("teardown") => Current.res # "panic"

\* C10: when provision issues its first create call, no role, no instance
\* profile and no inline policy of a prior run exists.
C10_CreateOnCleanState ==
    (InCall("provision") /\ lastCall.op = "create_instance_profile")
        => lastCall.iam = Clean

(***************************************************************************)
(* Properties of the order of provision.                                   *)
(***************************************************************************)
IsPrefix(s, t) == Len(s) <= Len(t) /\ SubSeq(t, 1, Len(s)) = s

Creates == {"create_role", "create_instance_profile"}

\* The steps of the current call from its first create request on.
RECURSIVE FromFirstCreate(_)
FromFirstCreate(s) ==
    IF s = <<>> \/ Head(s) \in Creates THEN s ELSE FromFirstCreate(Tail(s))

PutAll == [i \in 1..NumTemplates |-> "put_role_policy"]

ProfileFirst ==
    <<"create_instance_profile", "profile_visible", "settle", "create_role",
      "role_visible", "add_role_to_instance_profile">> \o PutAll

\* C11 as amended: provision creates the instance profile, polls until the
\* profile is visible, waits the settling delay, creates the role, polls until
\* the role is visible, attaches the role to the profile and then puts the
\* inline policies, in this order.
C11_ProvisionOrder ==
    InCall("provision") =>
        /\ IsPrefix(FromFirstCreate(steps), ProfileFirst)
        /\ Current.res = "ok" => FromFirstCreate(steps) = ProfileFirst

\* Reached: a provision has returned the instance profile specification.
C11_Witness ==
    InCall("provision") /\ Current.res = "ok" /\ pc = "idle"

\* C11 as stated: provision creates the role, polls until the role is visible,
\* waits the settling delay, creates the instance profile, polls until the
\* profile is visible, attaches the role and then puts the inline policies.
C11_RoleFirst ==
    LET RoleFirst ==
            <<"create_role", "role_visible", "settle", "create_instance_profile",
              "profile_visible", "add_role_to_instance_profile">> \o PutAll
    IN  InCall("provision") =>
            /\ IsPrefix(FromFirstCreate(steps), RoleFirst)
            /\ Current.res = "ok" => FromFirstCreate(steps) = RoleFirst

(***************************************************************************)
(* Properties of the inline policies.                                      *)
(***************************************************************************)
\* C13: after a provision for a table has returned, the inline policies of
\* the role are exactly one per template, each templated for that table; no
\* inline policy templated for a table processed before remains.
C13_PoliciesOfSubjectOnly ==
    (InCall("provision") /\ Current.res = "ok") =>
        /\ iam.inline = {[policy_name |-> n, table |-> glue_table] : n \in PolicyNames}
        /\ Cardinality(iam.inline) = NumTemplates
        /\ \A d \in iam.inline : d.table = glue_table

\* Reached: a provision has returned for one table, started on a role that
\* carried the inline policies of another table.
C13_Witness ==
    /\ InCall("provision") /\ Current.res = "ok"
    /\ pre.iam.inline # {}
    /\ \A d \in pre.iam.inline : d.table \in Tables \ {glue_table}

(***************************************************************************)
(* Properties of the job.                                                  *)
(***************************************************************************)
\* The places of a step in the steps of the current call.
PlacesOf(step) == {i \in 1..Len(steps) : steps[i] = step}

\* Before place i the request was sent and then what it made confirmed.
ConfirmedBefore(i, request, confirmation) ==
    \E r \in PlacesOf(request), c \in PlacesOf(confirmation) : r < c /\ c < i

\* C12: the role is attached to the instance profile only after a read has
\* confirmed the created profile and a read has confirmed the created role as
\* visible, and the instance is launched only after the role is attached and
\* every inline policy is put.
C12_ConfirmedBeforeAttachAndLaunch ==
    /\ \A i \in PlacesOf("add_role_to_instance_profile") :
          /\ ConfirmedBefore(i, "create_instance_profile", "profile_visible")
          /\ ConfirmedBefore(i, "create_role", "role_visible")
    /\ \A i \in PlacesOf("run_instances") :
          \E a \in PlacesOf("add_role_to_instance_profile") :
              /\ a < i
              /\ Cardinality({p \in PlacesOf("put_role_policy") : a < p /\ p < i})
                    = NumTemplates
    /\ lastCall.op = "run_instances" =>
          /\ lastCall.iam.role /\ lastCall.iam.profile /\ lastCall.iam.attached
          /\ {d.policy_name : d \in lastCall.iam.inline} = PolicyNames

\* Reached: the job has launched its instance.
C12_Witness ==
    /\ InCall("job")
    /\ lastCall.op = "run_instances"
    /\ instance = "pending"

\* Two characters that are the same letter, whatever their case.
SameLetter(a, b) ==
    \/ a = b
    \/ \E k \in 1..Len(UpperCase) : {a, b} = {UpperCase[k], LowerCase[k]}

EqualsIgnoringCase(s, t) ==
    Len(s) = Len(t) /\ \A i \in 1..Len(s) : SameLetter(s[i], t[i])

ContainsIgnoringCase(s, pattern) ==
    \E i \in 0..(Len(s) - Len(pattern)) :
        EqualsIgnoringCase(SubSeq(s, i + 1, i + Len(pattern)), pattern)

Whitespace == {" ", "\t", "\n"}

\* A text without its leading and trailing whitespace.
Trimmed(s) ==
    LET inked == {i \in 1..Len(s) : s[i] \notin Whitespace}
    IN  IF inked = {} THEN <<>>
        ELSE SubSeq(s, CHOOSE i \in inked : \A j \in inked : i <= j,
                       CHOOSE i \in inked : \A j \in inked : j <= i)

\* The done sentinel: "done" once trimmed, in any case.
IsDoneSentinel(s) == EqualsIgnoringCase(Trimmed(s), done)

\* update_progress has read the log stream.
HasRead == last_log_line # NoLine

Terminal == {"Completed", "Failed"}

LoopPcs == {"get_instance_state_name", "update_progress", "update_progress_sleep"}

\* C14: when the instance is running and the latest status event, trimmed,
\* equals "done" in any case, the monitor goes to Completed.
C14_DoneCompletes ==
    (HasRead /\ IsDoneSentinel(last_log_line)) => job_state = "Completed"

\* C15: when the instance is running and the latest status event is not the
\* done sentinel, the monitor goes to Failed if the text contains "failed" in
\* any case; otherwise it stays Running, the progress message ends with the
\* text as it was read, and the loop goes on polling.
C15_FailedOrRunning ==
    (HasRead /\ ~IsDoneSentinel(last_log_line)) =>
        IF ContainsIgnoringCase(last_log_line, failed)
        THEN job_state = "Failed"
        ELSE /\ job_state = "Running"
             /\ Len(message) > Len(last_log_line)
             /\ SubSeq(message, Len(message) - Len(last_log_line) + 1, Len(message))
                   = last_log_line
             /\ pc \in LoopPcs \/ "unknown_state" \in Range(steps)

\* Reached: update_progress has read a progress text, shows it and sleeps
\* before the next poll.
C15_Witness ==
    /\ HasRead
    /\ ~IsDoneSentinel(last_log_line)
    /\ ~ContainsIgnoringCase(last_log_line, failed)
    /\ last_log_line # <<>> /\ last_log_line # SettingUpLogging
    /\ message = Generating(glue_table, last_log_line)
    /\ pc = "update_progress_sleep"

\* A step from Completed or Failed reads neither the log stream nor the
\* power state.
TerminalReadsNothing ==
    job_state \in Terminal => ~(update_progress \/ get_instance_state_name)

\* C16: once the monitor is in Completed or Failed it reads neither the log
\* stream nor the power state again, and it is out of the loop.
C16_NoReadAfterTerminal ==
    [](job_state \in Terminal => pc \notin LoopPcs) /\ [][TerminalReadsNothing]_vars

\* Reached: the job has returned with the monitor in Failed.
C16_Witness ==
    /\ InCall("job") /\ Current.res = "ok"
    /\ job_state = "Failed"
    /\ "report_failed" \in Range(steps)

\* The cleanup_aim calls of the job after the launch of its instance.
CleanupsOfMonitor ==
    {c \in PlacesOf("cleanup_aim") : \E l \in PlacesOf("run_instances") : l < c}

\* C17: a job that has ended with the monitor in Completed or Failed has
\* triggered cleanup exactly once for it.
C17_CleanupOncePerTerminal ==
    (InCall("job") /\ job_state \in Terminal /\ Stopped)
        => Cardinality(CleanupsOfMonitor) = 1

\* C18: on Completed the instance is terminated, then the identity torn
\* down, then success reported: success is reported only after the terminate
\* call and cleanup_aim have returned, and teardown starts only after the
\* terminate call.
C18_TerminateTeardownReport ==
    /\ \A c \in CleanupsOfMonitor : \E t \in PlacesOf("terminate_instances") : t < c
    /\ \A i \in PlacesOf("report_success") :
          \E t \in PlacesOf("terminate_instances"), c \in CleanupsOfMonitor,
             r \in PlacesOf("cleanup_aim_returned") :
              t < c /\ c < r /\ r < i
    /\ (InCall("job") /\ job_state = "Completed" /\ pc = "idle")
          => steps[Len(steps)] = "report_success"

\* Reached: the job has reported success.
C18_Witness ==
    /\ InCall("job") /\ Current.res = "ok"
    /\ job_state = "Completed"
    /\ "report_success" \in Range(steps)

C20_TeardownOnFailed ==
    (InCall("job") /\ job_state = "Failed" /\ pc = "idle")
        => (~iam.role /\ ~iam.profile /\ iam.inline = {})

(***************************************************************************)
(* Properties of a provision that fails.                                   *)
(***************************************************************************)
\* The requests of provision proper, past its cleanup_aim.
ProvisionRequests ==
    {"create_instance_profile", "create_role", "add_role_to_instance_profile",
     "put_role_policy"}

\* C21: when a request of provision has failed, the workflow does not end
\* with the role or the instance profile in place, and launches no instance.
C21_FailedProvisionTornDown ==
    (InCall("provision") /\ pc = "panicked" /\ lastCall.op \in ProvisionRequests)
        => (~iam.role /\ ~iam.profile /\ instance = "none")

(***************************************************************************)
(* More properties of the resolver.                                        *)
(***************************************************************************)
NoValidPair(t) ==
    \A v \in VpcIds : \A sn \in Range(SubnetIds) : ~Eligible(t, v, sn)

\* C22: the resolver never returns an empty list: on a region without
\* networks it fails one way, on a scan that finds no valid pair it fails
\* another way, and a failed resolver has produced no list.
C22_NotFoundIsFatal ==
    Finished =>
        /\ topology.vpcs = <<>> <=> rpc = "panicked"
        /\ (topology.vpcs # <<>> /\ NoValidPair(topology)) <=> rpc = "exited"
        /\ rpc = "returned" <=> valid_subnets # <<>>

\* Reached: the resolver has scanned a region that has a network with a NAT
\* gateway and a private subnet with capacity, found no valid pair and exited.
C22_Witness ==
    /\ rpc = "exited"
    /\ \E sn \in SubnetsOf(topology) :
          PrivateWithCapacity(sn) /\ NatIdsIn(topology, sn.vpc_id) # {}

(***************************************************************************)
(* Properties of the values put into the policy templates.                 *)
(***************************************************************************)
\* A text up to its last character that is not a slash.
UpToLastNonSlash(s) ==
    LET solid == {i \in 1..Len(s) : s[i] # "/"}
    IN  IF solid = {} THEN <<>>
        ELSE SubSeq(s, 1, CHOOSE i \in solid : \A j \in solid : j <= i)

\* C23: for a table stored at s3://bucket/prefix/ the ARN put into the
\* templates is arn:aws:s3:::bucket/prefix, the scheme replaced and every
\* trailing slash stripped, and the bucket name put into them is bucket.
C23_ArnAndBucket ==
    \A b \in Buckets, key \in Keys :
        s3_location = S3Scheme \o b \o key =>
            /\ doc_pc # "panicked"
            /\ doc_pc = "generated" =>
                  /\ s3arn = ArnOfS3 \o b \o UpToLastNonSlash(key)
                  /\ bucket = b

\* Reached: the values are generated for a table stored at s3://bucket/p//.
C23_Witness ==
    /\ doc_pc = "generated"
    /\ s3_location = S3Scheme \o <<"b", "u", "c", "k", "e", "t", "/", "p", "/", "/">>
    /\ s3arn = ArnOfS3 \o <<"b", "u", "c", "k", "e", "t", "/", "p">>
    /\ bucket = <<"b", "u", "c", "k", "e", "t">>

(***************************************************************************)
(* Properties of the loop on the power state.                              *)
(***************************************************************************)
\* C24: while the power state read is pending, the monitor stays Running at
\* the head of its loop, has read no status event, and has sent no terminate
\* call and started no teardown.
C24_PendingWaits ==
    instance_state_name = "pending" =>
        /\ pc = "get_instance_state_name"
        /\ job_state = "Running"
        /\ ~HasRead
        /\ PlacesOf("terminate_instances") = {}
        /\ CleanupsOfMonitor = {}

\* Reached: the loop has read the power state as pending twice.
C24_Witness ==
    /\ instance_state_name = "pending"
    /\ poll = "undelayed"
    /\ instance = "pending"

KnownStates == {"none", "pending", "running"}

\* The step that reads another power state reads no status event and
\* classifies nothing.
UnknownReadsNothing ==
    (instance_state_name' \notin KnownStates /\ instance_state_name \in KnownStates)
        => (last_log_line' = last_log_line /\ job_state' = job_state)

\* C25: when the power state read is neither pending nor running, the loop
\* ends at once: the job is neither Completed nor Failed, no status event is
\* read, no terminate call and no teardown is issued, and the job returns Ok.
C25_UnknownExits ==
    /\ [](instance_state_name \notin KnownStates =>
            /\ pc = "idle" /\ Current.res = "ok"
            /\ job_state = "Running"
            /\ steps[Len(steps)] = "unknown_state"
            /\ PlacesOf("terminate_instances") = {}
            /\ CleanupsOfMonitor = {}
            /\ Range(steps) \cap {"report_success", "report_failed"} = {})
    /\ [][UnknownReadsNothing]_vars

\* Reached: the instance was stopped while the job was polling its status,
\* and the job has returned.
C25_Witness ==
    /\ InCall("job") /\ pc = "idle"
    /\ instance_state_name = "stopped"
    /\ HasRead

\* C26: between two consecutive reads of the power state a poll delay
\* elapses, in the Pending arm as in the Running arm.
C26_DelayBetweenReads ==
    poll # "undelayed"

(***************************************************************************)
(* Properties of failing reads.                                            *)
(***************************************************************************)
\* C27: a get_role that fails for another reason than a missing role is
\* fatal to the call: it is not taken for "no role" and not polled again.
C27_FailedReadIsFatal ==
    lastRead.failed => pc = "panicked"

(***************************************************************************)
(* Termination of the job.                                                 *)
(***************************************************************************)
\* The monitor is about to read the stream of a running instance, the last
\* event is "done" and no event follows it.
FinalEventIsDone ==
    /\ InCall("job") /\ pc = "update_progress"
    /\ instance_state_name = "running"
    /\ get_last_log_line(events) = done
    /\ Len(events) = MaxEvents

\* run_sythetic_data_job returned after the Completed arm ran to its end.
ReportedSuccess ==
    /\ InCall("job") /\ Current.res = "ok"
    /\ job_state = "Completed"
    /\ "terminate_instances" \in Range(steps)
    /\ "cleanup_aim_returned" \in Range(steps)
    /\ "report_success" \in Range(steps)

\* C28: with the instance running and "done" the final event, the job
\* eventually reaches Completed, terminates the instance, finishes teardown
\* and reports success.
C28_JobCompletes ==
    FinalEventIsDone ~> ReportedSuccess

(***************************************************************************)
(* Order and multiplicity of the resolver's output.                        *)
(***************************************************************************)
\* The place of a VPC in the list of describe_vpcs, of a subnet in the list
\* of describe_subnets.
VpcPlace(t, v) == CHOOSE i \in 1..Len(t.vpcs) : t.vpcs[i] = v
SubnetPlace(t, sn) == CHOOSE i \in 1..Len(t.subnets) : t.subnets[i].subnet_id = sn

\* The scan reaches the pair a no later than the pair b.
ScannedNoLater(t, a, b) ==
    \/ VpcPlace(t, a.vpc) < VpcPlace(t, b.vpc)
    \/ /\ a.vpc = b.vpc
       /\ SubnetPlace(t, a.subnet) <= SubnetPlace(t, b.subnet)

\* C29: the output is in discovery order: of two entries the earlier one is
\* the pair scanned first, VPCs in the order listed, subnets in the order
\* listed within a VPC.
C29_DiscoveryOrder ==
    Finished =>
        \A i, j \in 1..Len(valid_subnets) :
            i < j => ScannedNoLater(topology, valid_subnets[i], valid_subnets[j])

\* Reached: the VPCs were listed against the order of their ids, both have a
\* valid subnet, and the output follows the listing.
C29_Witness ==
    /\ rpc = "returned"
    /\ topology.vpcs = <<"vpc-2", "vpc-1">>
    /\ \E i, j \in 1..Len(valid_subnets) :
          /\ i < j
          /\ valid_subnets[i].vpc = "vpc-2"
          /\ valid_subnets[j].vpc = "vpc-1"

\* C30: each valid (network, subnet) pair is in the output exactly once,
\* however many route tables and NAT gateways qualify it.
C30_EachPairOnce ==
    Finished =>
        \A v \in VpcIds : \A sn \in Range(SubnetIds) :
            Eligible(topology, v, sn) =>
                Cardinality({i \in 1..Len(valid_subnets) :
                               valid_subnets[i] = ValidSubnet(v, sn)}) = 1

(***************************************************************************)
(* The events the monitor reads.                                           *)
(***************************************************************************)
\* The most recent event of a stream.
Latest(stream) == stream[Len(stream)]

\* A "done" is in the stream and a later event, not terminal, is the most
\* recent one.
DoneThenProgress(stream) ==
    /\ stream # <<>>
    /\ JobStateOf(Latest(stream)) = "Running"
    /\ \E i \in 1..(Len(stream) - 1) : JobStateOf(stream[i]) = "Completed"

\* The poll reads the most recent event, and a "done" that is no longer the
\* most recent one does not complete the job.
PollReadsLatest ==
    (pc = "update_progress" /\ pc' # pc) =>
        /\ last_log_line' = Latest(events)
        /\ job_state' = "Completed" => JobStateOf(Latest(events)) = "Completed"
        /\ DoneThenProgress(events) => job_state' = "Running"

\* C31: the monitor decides each transition from the most recent status
\* event only: a "done" followed by a later non-terminal event before the
\* poll does not make that poll go to Completed.
C31_LatestEventOnly == [][PollReadsLatest]_vars

\* Reached: the instance sent "done" and then a progress text between two
\* polls; the poll has read the progress text and sleeps.
C31_Witness ==
    /\ Len(events) >= 3
    /\ \E i \in 2..(Len(events) - 1) :
          /\ events[i - 1] = SettingUpLogging
          /\ JobStateOf(events[i]) = "Completed"
    /\ JobStateOf(Latest(events)) = "Running"
    /\ last_log_line = Latest(events)
    /\ job_state = "Running"
    /\ pc = "update_progress_sleep"

\* The place in the stream of the event CWLogSender::new sent for this job,
\* 0 before it is sent.
PlaceOfSetUp ==
    IF \E i \in 1..Len(events) : events[i] = SettingUpLogging
    THEN CHOOSE i \in 1..Len(events) : events[i] = SettingUpLogging
    ELSE 0

\* The events the instance of this job has sent.
EventsOfThisRun ==
    {events[j] : j \in (PlaceOfSetUp + 1)..Len(events)}

\* C32: an event that a previous job on the table left in the stream never
\* makes the monitor go to Completed or Failed: the job appends its own
\* non-terminal event before it launches the instance, every line the
\* monitor reads is that event or a later one, and a terminal state comes
\* from an event the instance of this job sent.
C32_NoStaleEvent ==
    /\ pc = "run_instances" =>
          /\ Latest(events) = SettingUpLogging
          /\ JobStateOf(Latest(events)) = "Running"
    /\ instance # "none" => PlaceOfSetUp > 0
    /\ HasRead => last_log_line \in {SettingUpLogging} \cup EventsOfThisRun
    /\ job_state \in Terminal => last_log_line \in EventsOfThisRun

\* Reached: the stream began with the terminal event of a previous job, the
\* monitor has read the stream and goes on polling.
C32_Witness ==
    /\ PlaceOfSetUp = 2
    /\ JobStateOf(events[1]) \in Terminal
    /\ HasRead
    /\ job_state = "Running"
    /\ pc = "update_progress_sleep"

(***************************************************************************)
(* The identity while the job is monitored.                                *)
(***************************************************************************)
\* cleanup_aim and the requests that take the identity apart.
TeardownRequests ==
    {"cleanup_aim", "detach_role_policy", "delete_role_policy",
     "remove_role_from_instance_profile", "delete_instance_profile", "delete_role"}

Launched == PlacesOf("run_instances") # {}

\* C33: from the launch of the instance for as long as the monitor is in
\* Running, the role, the instance profile with the role in it and the
\* inline policies of the table exist, and the job has issued no detach or
\* delete request on them since the launch.
C33_IdentityKeptWhileRunning ==
    (Launched /\ job_state = "Running") =>
        /\ iam.role /\ iam.profile /\ iam.attached
        /\ iam.inline = Range(generate_policy_docs(glue_table))
        /\ \A l \in PlacesOf("run_instances") : \A i \in 1..Len(steps) :
              steps[i] \in TeardownRequests => i < l

\* Reached: the job took apart what a previous job had left, launched its
\* instance, has read the stream and goes on polling.
C33_Witness ==
    /\ Launched
    /\ PlacesOf("delete_role") # {}
    /\ HasRead
    /\ job_state = "Running"
    /\ pc = "update_progress_sleep"

(***************************************************************************)
(* Properties of set_up_cw_logging.                                        *)
(***************************************************************************)
CwPlacesOf(step) == {i \in 1..Len(cw_steps) : cw_steps[i] = step}

\* C34: set_up_cw_logging creates the log group only after a read that did
\* not show it, the log stream only after a read that did not show it, no
\* group or stream that a read showed, and it returns only after a read has
\* shown both, which then exist.
C34_CreateOnlyIfAbsent ==
    /\ \A i \in CwPlacesOf("create_log_group") :
          i > 1 /\ cw_steps[i - 1] = "group_absent"
    /\ \A i \in CwPlacesOf("create_log_stream") :
          i > 1 /\ cw_steps[i - 1] = "stream_absent"
    /\ CwPlacesOf("group_present") # {} => CwPlacesOf("create_log_group") = {}
    /\ CwPlacesOf("stream_present") # {} => CwPlacesOf("create_log_stream") = {}
    /\ cw_pc = "returned" =>
          /\ cw_steps[Len(cw_steps)] = "ready"
          /\ log_group_name \in cw.groups \cap cw_vis.groups
          /\ log_stream_name \in cw.streams \cap cw_vis.streams

\* Reached: set_up_cw_logging has created the group and the stream, next to
\* the stream of another table, and has returned.
C34_Witness ==
    /\ cw_pc = "returned"
    /\ cw_steps = <<"group_absent", "create_log_group",
                    "stream_absent", "create_log_stream", "ready">>

\* Reached: the group and the stream were there, nothing was created.
C34_WitnessSetUp ==
    /\ cw_pc = "returned"
    /\ cw_steps = <<"group_present", "stream_present", "ready">>

(***************************************************************************)
(* The tables the catalog filter keeps.                                    *)
(***************************************************************************)
\* C35: for every table get_one_glue_table keeps, the generation of the
\* policy values does not fail and gives an ARN that starts with
\* arn:aws:s3::: and a bucket name, also for a location written S3://.
C35_KeptTableGenerates ==
    get_one_glue_table_keeps(s3_location) =>
        /\ doc_pc # "panicked"
        /\ doc_pc = "generated" =>
              /\ starts_with(s3arn, ArnOfS3)
              /\ bucket # <<>>

====
